---- MODULE Spec2Model ----
(***************************************************************************)
(* Model of showkeybindings.py: the gsettings keybinding collector         *)
(* (KeybindingCollector), the binding-string parser (_BuildSpec) and the   *)
(* search callback of the table window (TreeViewWindow._Search).           *)
(*                                                                         *)
(* A Python str is modelled as a sequence of one-character strings, so     *)
(* that the regular expression, str.replace, str.join, str.lower and the   *)
(* `in` substring test are computed character by character.                *)
(***************************************************************************)
EXTENDS Integers, Sequences, FiniteSets, TLC

VARIABLES
    pc,                       \* position of the program
    binding,                  \* argument of _BuildSpec (parser runs)
    result,                   \* KeybindingSpec returned by _BuildSpec (parser runs)
    non_relocatable_schemas,  \* GetAllSpecs: first list of src.list_schemas(True)
    relocatable_schemas,      \* GetAllSpecs: second list of src.list_schemas(True)
    idx,                      \* GetAllSpecs: position of the for loop over the schemas
    specs,                    \* GetAllSpecs: local list specs
    schema_specs,             \* _GetSpecsForSchema: local list specs
    lookups,                  \* log of src.lookup(schema, False).get_path() calls
    opened,                   \* log of Gio.Settings.new(schema) calls
    keys_read,                \* log of the keys settings.keys() has yielded
    store_size,               \* keys and strings read from the store so far
    list_model,               \* TreeViewWindow: rows of the Gtk.ListStore
    search                    \* last call of _Search: key, rowiter, returned value

vars == <<pc, binding, result, non_relocatable_schemas, relocatable_schemas, idx,
          specs, schema_specs, lookups, opened, keys_read, store_size,
          list_model, search>>

-----------------------------------------------------------------------------
(* Bounds of the model.                                                    *)

\* a binding given to the parser is made of at most MaxPieces fragments
MaxPieces == 3
\* a binding made of the characters '<', '>' and 'a' has at most MaxLen characters
MaxLen == 9
\* the store lists at most MaxSchemas schemas
MaxSchemas == 3
\* the collector reads at most MaxStoreSize keys and strings from the store
MaxStoreSize == 4
\* the list model of a search run has at most MaxRows rows
MaxRows == 2

-----------------------------------------------------------------------------
(* String literals.                                                        *)

T_Shift == <<"<", "S", "h", "i", "f", "t", ">">>
T_Primary == <<"<", "P", "r", "i", "m", "a", "r", "y", ">">>
T_Control == <<"<", "C", "o", "n", "t", "r", "o", "l", ">">>
T_Alt == <<"<", "A", "l", "t", ">">>
T_Super == <<"<", "S", "u", "p", "e", "r", ">">>
S_Shift == <<"S", "h", "i", "f", "t">>
S_Control == <<"C", "o", "n", "t", "r", "o", "l">>
S_Alt == <<"A", "l", "t">>
S_Super == <<"S", "u", "p", "e", "r">>
S_keybindings == <<"k", "e", "y", "b", "i", "n", "d", "i", "n", "g", "s">>
S_Space == <<" ">>

\* values used as inputs and in the examples of the claims
S_Primary == <<"P", "r", "i", "m", "a", "r", "y">>
T_shift == <<"<", "s", "h", "i", "f", "t", ">">>
T_Foo == <<"<", "F", "o", "o", ">">>
S_F1 == <<"F", "1">>
S_F5 == <<"F", "5">>
S_X == <<"X">>
S_ExampleSchema == <<"o", "r", "g", ".", "e", "x", "a", "m", "p", "l", "e", ".",
                     "k", "e", "y", "b", "i", "n", "d", "i", "n", "g", "s">>
S_toggle == <<"t", "o", "g", "g", "l", "e">>
S_ControlAlt == <<"C", "o", "n", "t", "r", "o", "l", " ", "A", "l", "t">>
S_ShiftSuper == <<"S", "h", "i", "f", "t", " ", "S", "u", "p", "e", "r">>
S_ControlAltX == <<"<", "C", "o", "n", "t", "r", "o", "l", ">", "<", "A", "l", "t", ">", "X">>
S_ShiftSuperF1 == <<"<", "S", "h", "i", "f", "t", ">", "<", "S", "u", "p", "e", "r", ">", "F", "1">>
S_AltX == <<"<", "A", "l", "t", ">", "X">>
S_wmKeybindings == <<"w", "m", ".", "k", "e", "y", "b", "i", "n", "d", "i", "n", "g", "s">>
S_keybindingsMedia == <<"k", "e", "y", "b", "i", "n", "d", "i", "n", "g", "s", ".",
                        "m", "e", "d", "i", "a">>
S_wmCapitalKeybindings == <<"w", "m", ".", "K", "e", "y", "b", "i", "n", "d", "i", "n", "g", "s">>
S_path == <<"/", "w", "m", "/">>
S_alt == <<"a", "l", "t">>
S_ALT == <<"A", "L", "T">>
S_f5 == <<"f", "5">>
S_KEYB == <<"K", "E", "Y", "B">>
S_z == <<"z">>

-----------------------------------------------------------------------------
(* KeybindingSpec                                                          *)

KeybindingSpec(schema, action, modifiers, key) ==
    [schema |-> schema, action |-> action, modifiers |-> modifiers, key |-> key]

ToList(spec) == <<spec.schema, spec.action, spec.modifiers, spec.key>>

\* the value of `result` before _BuildSpec has returned
NoSpec == [none |-> TRUE]

-----------------------------------------------------------------------------
(* The parser: KeybindingCollector._BuildSpec                              *)

\* Faulty variant of RegexMatchEnd: the pattern '<[^>]*>', which also matches '<>'.
RegexMatchEndStar(s, i) ==
    IF s[i] # "<" THEN 0
    ELSE LET stops == {j \in (i + 1)..Len(s) : s[j] = ">"}
         IN  IF stops = {} THEN 0
             ELSE CHOOSE j \in stops : \A k \in stops : j <= k

\* re '<[^>]+>' tried at position i of s: the position of the closing '>' of
\* the match, 0 when the pattern does not match there.  '[^>]+' is greedy and
\* takes every character up to the next '>'; it needs at least one.
RegexMatchEnd(s, i) ==
    IF s[i] # "<" THEN 0
    ELSE LET stops == {j \in (i + 1)..Len(s) : s[j] = ">"}
         IN  IF stops = {} THEN 0
             ELSE LET j == CHOOSE j \in stops : \A k \in stops : j <= k
                  IN  IF j >= i + 2 THEN j ELSE 0

RECURSIVE FindAllFrom(_, _)
\* re.findall from position i on: the scan tries each position from left to
\* right and resumes after the end of each match (matches do not overlap).
FindAllFrom(s, i) ==
    IF i > Len(s) THEN <<>>
    ELSE LET e == RegexMatchEnd(s, i)
         IN  IF e = 0 THEN FindAllFrom(s, i + 1)
             ELSE <<SubSeq(s, i, e)>> \o FindAllFrom(s, e + 1)

\* self._modifier_re.findall(key)
FindAll(s) == FindAllFrom(s, 1)

RECURSIVE ReplaceFrom(_, _, _)
\* str.replace(old, '') from position i on: every non-overlapping occurrence
\* of old, found from left to right, is dropped.
ReplaceFrom(s, old, i) ==
    IF i > Len(s) THEN <<>>
    ELSE IF i + Len(old) - 1 <= Len(s) /\ SubSeq(s, i, i + Len(old) - 1) = old
         THEN ReplaceFrom(s, old, i + Len(old))
         ELSE <<s[i]>> \o ReplaceFrom(s, old, i + 1)

\* key.replace(modifier, '')
Replace(s, old) == ReplaceFrom(s, old, 1)

\* Faulty variant of ModifierName: the '<Primary>' alternative of the elif is missing.
ModifierNameWithoutPrimary(modifier) ==
    IF modifier = T_Shift THEN <<S_Shift>>
    ELSE IF modifier = T_Control THEN <<S_Control>>
    ELSE IF modifier = T_Alt THEN <<S_Alt>>
    ELSE IF modifier = T_Super THEN <<S_Super>>
    ELSE <<>>

\* Faulty variant of ModifierName: a final else appends the name of any other tag.
ModifierNameOfAnyTag(modifier) ==
    IF modifier = T_Shift THEN <<S_Shift>>
    ELSE IF modifier = T_Primary \/ modifier = T_Control THEN <<S_Control>>
    ELSE IF modifier = T_Alt THEN <<S_Alt>>
    ELSE IF modifier = T_Super THEN <<S_Super>>
    ELSE <<SubSeq(modifier, 2, Len(modifier) - 1)>>

\* The if/elif chain of the loop body: what modifiers.append receives, as a
\* list of zero or one names.
ModifierName(modifier) ==
    IF modifier = T_Shift THEN <<S_Shift>>
    ELSE IF modifier = T_Primary \/ modifier = T_Control THEN <<S_Control>>
    ELSE IF modifier = T_Alt THEN <<S_Alt>>
    ELSE IF modifier = T_Super THEN <<S_Super>>
    ELSE <<>>

RECURSIVE BuildLoopKeepingUnknownTags(_, _, _, _)
\* Faulty variant of BuildLoop: key.replace is reached only in the branches of recognized tags.
BuildLoopKeepingUnknownTags(found, k, modifiers, key) ==
    IF k > Len(found) THEN [modifiers |-> modifiers, key |-> key]
    ELSE BuildLoopKeepingUnknownTags(found, k + 1,
                   modifiers \o ModifierName(found[k]),
                   IF ModifierName(found[k]) = <<>> THEN key
                   ELSE Replace(key, found[k]))

RECURSIVE BuildLoop(_, _, _, _)
\* The for loop over the matches: iteration k appends the name of match k, if
\* it has one, and removes the text of match k from key.
BuildLoop(found, k, modifiers, key) ==
    IF k > Len(found) THEN [modifiers |-> modifiers, key |-> key]
    ELSE BuildLoop(found, k + 1,
                   modifiers \o ModifierName(found[k]),
                   Replace(key, found[k]))

RECURSIVE Join(_, _)
\* sep.join(list)
Join(sep, list) ==
    IF list = <<>> THEN <<>>
    ELSE IF Len(list) = 1 THEN list[1]
    ELSE list[1] \o sep \o Join(sep, Tail(list))

\* _BuildSpec(schema, action, binding)
BuildSpec(schema, action, raw) ==
    LET out == BuildLoop(FindAll(raw), 1, <<>>, raw)
    IN  KeybindingSpec(schema, action, Join(S_Space, out.modifiers), out.key)

-----------------------------------------------------------------------------
(* Values of the variables a run does not use.                             *)

IdleParser == binding = <<>> /\ result = NoSpec
IdleCollector ==
    /\ non_relocatable_schemas = <<>>
    /\ relocatable_schemas = <<>>
    /\ idx = 0
    /\ specs = <<>>
    /\ schema_specs = <<>>
    /\ lookups = <<>>
    /\ opened = <<>>
    /\ keys_read = <<>>
    /\ store_size = 0
IdleWindow == list_model = <<>> /\ search = [none |-> TRUE, key |-> <<>>, rowiter |-> 0, returned |-> TRUE]

collectorVars == <<non_relocatable_schemas, relocatable_schemas, idx, specs,
                   schema_specs, lookups, opened, keys_read, store_size>>
windowVars == <<list_model, search>>

-----------------------------------------------------------------------------
(* Parser runs: _BuildSpec as a function of its binding.                   *)

RECURSIVE Concat(_)
Concat(pieces) ==
    IF pieces = <<>> THEN <<>> ELSE pieces[1] \o Concat(Tail(pieces))

SeqsUpTo(S, n) == UNION {[1..m -> S] : m \in 0..n}

\* fragments the bindings are made of: the recognized tags, a case variant,
\* an unknown tag, key names, and the two bracket characters alone
Fragments == {T_Shift, T_Primary, T_Control, T_Alt, T_Super, T_shift, T_Foo,
              S_X, S_F1, S_F5, <<"<">>, <<">">>}

FragmentBindings == {Concat(p) : p \in SeqsUpTo(Fragments, MaxPieces)}

\* every string of brackets and one letter
CharBindings == SeqsUpTo({"<", ">", "a"}, MaxLen)

BuildSpecCall ==
    /\ pc = "call"
    /\ result' = BuildSpec(S_ExampleSchema, S_toggle, binding)
    /\ pc' = "returned"
    /\ UNCHANGED <<binding, collectorVars, windowVars>>

InitParse ==
    /\ pc = "call"
    /\ binding \in FragmentBindings \cup CharBindings
    /\ result = NoSpec
    /\ IdleCollector
    /\ IdleWindow

NextParse == BuildSpecCall

SpecParse == InitParse /\ [][NextParse]_vars

-----------------------------------------------------------------------------
(* The collector: KeybindingCollector.GetAllSpecs and _GetSpecsForSchema.  *)
(* The settings store is Gio: what it answers is drawn when it is asked    *)
(* and logged in lookups, opened and keys_read.                            *)

\* sub in s
Contains(sub, s) ==
    \E i \in 1..(Len(s) - Len(sub) + 1) : SubSeq(s, i, i + Len(sub) - 1) = sub

\* schema identifiers the store may list
SchemaIds == {S_wmKeybindings, S_keybindingsMedia, S_wmCapitalKeybindings}

\* get_path() returns None or a string
NonePath == [none |-> TRUE, str |-> <<>>]
Paths == {NonePath, [none |-> FALSE, str |-> <<>>], [none |-> FALSE, str |-> S_path]}

\* Faulty variant of Truthy: the test is `get_path() is not None`.
TruthyIsNotNone(path) == ~path.none

\* truth value of the path in the condition of the if
Truthy(path) == ~path.none /\ path.str # <<>>

\* Faulty variant of AllSchemas: the relocatable schemas are visited first.
AllSchemasRelocatableFirst(non_relocatable, relocatable) ==
    relocatable \o non_relocatable

\* non_relocatable_schemas + relocatable_schemas
AllSchemas(non_relocatable, relocatable) == non_relocatable \o relocatable

\* binding strings a string-array key may hold
Bindings == {<<>>, S_AltX, S_F5}

\* name of the k-th key settings.keys() yields for a schema
ActionName(k) == <<"k", <<"1", "2", "3", "4", "5", "6", "7", "8", "9">>[k]>>

\* Faulty variant of SpecsForBindings: the comprehension has no `if binding`.
SpecsForBindingsUnfiltered(schema, action, keybindings) ==
    [k \in 1..Len(keybindings) |-> BuildSpec(schema, action, keybindings[k])]

\* [self._BuildSpec(schema, action, binding)
\*  for binding in keybindings if binding]
SpecsForBindings(schema, action, keybindings) ==
    LET kept == SelectSeq(keybindings, LAMBDA b : b # <<>>)
    IN  [k \in 1..Len(kept) |-> BuildSpec(schema, action, kept[k])]

\* The body of the loop over settings.keys() for one key.
SpecsForKey(schema, action, type, value) ==
    IF type = "as"
    THEN IF value # <<>> THEN SpecsForBindings(schema, action, value) ELSE <<>>
    ELSE <<>>

Schemas == AllSchemas(non_relocatable_schemas, relocatable_schemas)

\* src.list_schemas(True) and specs = []
ListSchemas ==
    /\ pc = "start"
    /\ \E nr \in SeqsUpTo(SchemaIds, MaxSchemas) :
       \E r \in SeqsUpTo(SchemaIds, MaxSchemas - Len(nr)) :
          /\ \A i, j \in DOMAIN (nr \o r) : (nr \o r)[i] = (nr \o r)[j] => i = j
          /\ non_relocatable_schemas' = nr
          /\ relocatable_schemas' = r
    /\ idx' = 1
    /\ specs' = <<>>
    /\ pc' = "for_schema"
    /\ UNCHANGED <<binding, result, schema_specs, lookups, opened, keys_read,
                   store_size, windowVars>>

\* 'keybindings' in schema is false: the and stops there, nothing is looked up
SkipSchemaByName ==
    /\ pc = "for_schema"
    /\ idx <= Len(Schemas)
    /\ ~Contains(S_keybindings, Schemas[idx])
    /\ idx' = idx + 1
    /\ UNCHANGED <<pc, binding, result, non_relocatable_schemas, relocatable_schemas,
                   specs, schema_specs, lookups, opened, keys_read, store_size,
                   windowVars>>

\* src.lookup(schema, False).get_path() is falsy
SkipSchemaByPath ==
    /\ pc = "for_schema"
    /\ idx <= Len(Schemas)
    /\ Contains(S_keybindings, Schemas[idx])
    /\ \E path \in Paths :
          /\ ~Truthy(path)
          /\ lookups' = Append(lookups, [schema |-> Schemas[idx], path |-> path])
    /\ idx' = idx + 1
    /\ UNCHANGED <<pc, binding, result, non_relocatable_schemas, relocatable_schemas,
                   specs, schema_specs, opened, keys_read, store_size, windowVars>>

\* the condition holds: _GetSpecsForSchema starts, Gio.Settings.new(schema)
OpenSchema ==
    /\ pc = "for_schema"
    /\ idx <= Len(Schemas)
    /\ Contains(S_keybindings, Schemas[idx])
    /\ \E path \in Paths :
          /\ Truthy(path)
          /\ lookups' = Append(lookups, [schema |-> Schemas[idx], path |-> path])
    /\ opened' = Append(opened, Schemas[idx])
    /\ schema_specs' = <<>>
    /\ pc' = "for_action"
    /\ UNCHANGED <<binding, result, non_relocatable_schemas, relocatable_schemas,
                   idx, specs, keys_read, store_size, windowVars>>

\* one iteration of `for action in settings.keys()`
ReadKey ==
    /\ pc = "for_action"
    /\ store_size < MaxStoreSize
    /\ LET schema == Schemas[idx]
           action == ActionName(1 + Cardinality({k \in DOMAIN keys_read :
                                                   keys_read[k].schema = schema}))
       IN  \/ \E value \in SeqsUpTo(Bindings, MaxStoreSize - store_size - 1) :
                /\ schema_specs' = schema_specs \o SpecsForKey(schema, action, "as", value)
                /\ keys_read' = Append(keys_read, [schema |-> schema, action |-> action,
                                                   type |-> "as", value |-> value])
                /\ store_size' = store_size + 1 + Len(value)
           \/ \E value \in {S_F5} :
                /\ schema_specs' = schema_specs \o SpecsForKey(schema, action, "s", value)
                /\ keys_read' = Append(keys_read, [schema |-> schema, action |-> action,
                                                   type |-> "s", value |-> value])
                /\ store_size' = store_size + 1
    /\ UNCHANGED <<pc, binding, result, non_relocatable_schemas, relocatable_schemas,
                   idx, specs, lookups, opened, windowVars>>

\* settings.keys() is exhausted: return specs, and specs += in GetAllSpecs
ReturnSpecsForSchema ==
    /\ pc = "for_action"
    /\ specs' = specs \o schema_specs
    /\ schema_specs' = <<>>
    /\ idx' = idx + 1
    /\ pc' = "for_schema"
    /\ UNCHANGED <<binding, result, non_relocatable_schemas, relocatable_schemas,
                   lookups, opened, keys_read, store_size, windowVars>>

\* the loop over the schemas is over: return specs
ReturnAllSpecs ==
    /\ pc = "for_schema"
    /\ idx > Len(Schemas)
    /\ pc' = "collected"
    /\ UNCHANGED <<binding, result, collectorVars, windowVars>>

-----------------------------------------------------------------------------
(* The window: TreeViewWindow.                                             *)

\* list_model.append(spec.ToList()) for every spec
Rows(speclist) == [k \in 1..Len(speclist) |-> ToList(speclist[k])]

TreeViewWindowInit ==
    /\ pc = "collected"
    /\ list_model' = Rows(specs)
    /\ pc' = "main"
    /\ UNCHANGED <<binding, result, collectorVars, search>>

S_UpperCase == <<"A", "B", "C", "D", "E", "F", "G", "H", "I", "J", "K", "L", "M",
                 "N", "O", "P", "Q", "R", "S", "T", "U", "V", "W", "X", "Y", "Z">>
S_LowerCase == <<"a", "b", "c", "d", "e", "f", "g", "h", "i", "j", "k", "l", "m",
                 "n", "o", "p", "q", "r", "s", "t", "u", "v", "w", "x", "y", "z">>

\* Faulty variant of Lower: no case folding.
LowerUnfolded(s) == s

\* str.lower()
Lower(s) ==
    [k \in 1..Len(s) |->
        IF \E n \in 1..26 : S_UpperCase[n] = s[k]
        THEN S_LowerCase[CHOOSE n \in 1..26 : S_UpperCase[n] = s[k]]
        ELSE s[k]]

\* self._column_titles has four titles
NumColumns == 4

\* _Search(model, column, key, rowiter): False when a column holds the key
SearchReturns(model, key, rowiter) ==
    ~(\E i \in 1..NumColumns : Contains(Lower(key), Lower(model[rowiter][i])))

SearchKeys == {<<>>, S_alt, S_ALT, S_f5, S_KEYB, S_z}

Search ==
    /\ pc = "main"
    /\ \E key \in SearchKeys :
       \E rowiter \in DOMAIN list_model :
          search' = [none |-> FALSE, key |-> key, rowiter |-> rowiter,
                     returned |-> SearchReturns(list_model, key, rowiter)]
    /\ UNCHANGED <<pc, binding, result, collectorVars, list_model>>

\* _Quit: Gtk.main_quit()
Quit ==
    /\ pc = "main"
    /\ pc' = "quit"
    /\ UNCHANGED <<binding, result, collectorVars, windowVars>>

NoSearch == [none |-> TRUE, key |-> <<>>, rowiter |-> 0, returned |-> TRUE]

-----------------------------------------------------------------------------
(* The program: main().                                                    *)

Init ==
    /\ pc = "start"
    /\ IdleParser
    /\ IdleCollector
    /\ list_model = <<>>
    /\ search = NoSearch

Next ==
    \/ ListSchemas
    \/ SkipSchemaByName
    \/ SkipSchemaByPath
    \/ OpenSchema
    \/ ReadKey
    \/ ReturnSpecsForSchema
    \/ ReturnAllSpecs
    \/ TreeViewWindowInit

Spec == Init /\ [][Next]_vars

\* Search runs: the window shows records the collector can return.
SearchSchemas == {S_wmKeybindings}
SearchBindings == {S_AltX, S_F5, S_ShiftSuperF1}
SearchSpecs == {BuildSpec(s, ActionName(1), b) : s \in SearchSchemas, b \in SearchBindings}

InitSearch ==
    /\ pc = "main"
    /\ IdleParser
    /\ IdleCollector
    /\ list_model \in {Rows(l) : l \in SeqsUpTo(SearchSpecs, MaxRows)}
    /\ search = NoSearch

NextSearch == Search \/ Quit

SpecSearch == InitSearch /\ [][NextSearch]_vars

-----------------------------------------------------------------------------
(* What the claims about the parser speak of, stated on the strings        *)
(* themselves and not through the scan above.                              *)

\* t is a bracketed tag: '<', one or more characters other than '>', '>'
IsTag(t) ==
    /\ Len(t) >= 3
    /\ t[1] = "<"
    /\ t[Len(t)] = ">"
    /\ \A k \in 2..(Len(t) - 1) : t[k] # ">"

\* s has a substring that is a bracketed tag
HasTag(s) == \E i \in 1..Len(s) : \E j \in i..Len(s) : IsTag(SubSeq(s, i, j))

\* sub occurs in s
Occurs(sub, s) ==
    \E i \in 1..(Len(s) - Len(sub) + 1) : SubSeq(s, i, i + Len(sub) - 1) = sub

\* The tags a left-to-right scan of s finds start at the first '<' after the
\* previous '>' (or after the start of s) and end at the next '>', provided at
\* least one character lies between the two.
ScanStarts(s) ==
    {i \in 1..Len(s) :
        /\ s[i] = "<"
        /\ \A k \in 1..(i - 1) : s[k] = "<" => \E m \in (k + 1)..(i - 1) : s[m] = ">"
        /\ \E j \in (i + 2)..Len(s) :
              s[j] = ">" /\ \A k \in (i + 1)..(j - 1) : s[k] # ">"}

ScanEnd(s, i) == CHOOSE j \in (i + 2)..Len(s) :
                    s[j] = ">" /\ \A k \in (i + 1)..(j - 1) : s[k] # ">"

ScanTag(s, i) == SubSeq(s, i, ScanEnd(s, i))

CanonicalNames == {S_Shift, S_Control, S_Alt, S_Super}

RecognizedTags == {T_Shift, T_Primary, T_Control, T_Alt, T_Super}

CanonicalOf(t) ==
    CASE t = T_Shift -> S_Shift
      [] t = T_Primary -> S_Control
      [] t = T_Control -> S_Control
      [] t = T_Alt -> S_Alt
      [] t = T_Super -> S_Super

\* the k-th smallest member of a set of numbers
Nth(S, k) == CHOOSE i \in S : Cardinality({j \in S : j < i}) = k - 1

\* the names the claim expects, in order of appearance of their tags
ExpectedNames(s) ==
    LET R == {i \in ScanStarts(s) : ScanTag(s, i) \in RecognizedTags}
    IN  [k \in 1..Cardinality(R) |-> CanonicalOf(ScanTag(s, Nth(R, k)))]

\* the fields of m between single spaces: m is its fields joined by one space
\* each, with no space before the first or after the last
Fields(m) ==
    LET P == {i \in 1..Len(m) : m[i] = " "}
        cut(k) == IF k = 0 THEN 0
                  ELSE IF k = Cardinality(P) + 1 THEN Len(m) + 1
                  ELSE Nth(P, k)
    IN  [k \in 1..(Cardinality(P) + 1) |-> SubSeq(m, cut(k - 1) + 1, cut(k) - 1)]

\* the space-separated tokens of m
Tokens(m) == {Fields(m)[k] : k \in DOMAIN Fields(m)} \ {<<>>}

Returned == pc = "returned"

\* C1: the key of the returned record holds no bracketed tag.
C1_KeyHasNoTag == Returned => ~HasTag(result.key)

\* C2: modifiers is the canonical names of the recognized tags the scan finds,
\* in order of appearance, one per match, joined by single spaces; the
\* examples <Control><Alt>X and <Shift><Super>F1 of the claim included.
C2_ModifiersInOrder ==
    Returned =>
        /\ IF ExpectedNames(binding) = <<>>
           THEN result.modifiers = <<>>
           ELSE Fields(result.modifiers) = ExpectedNames(binding)
        /\ binding = S_ControlAltX =>
              result.modifiers = S_ControlAlt /\ result.key = S_X
        /\ binding = S_ShiftSuperF1 =>
              result = KeybindingSpec(S_ExampleSchema, S_toggle, S_ShiftSuper, S_F1)

\* a repeated tag gives its name once per match, and a Primary tag follows
C2_Witness ==
    /\ Returned
    /\ Len(ExpectedNames(binding)) = 3
    /\ ExpectedNames(binding)[1] = ExpectedNames(binding)[2]
    /\ Occurs(T_Primary, binding)

C2_WitnessExample == Returned /\ binding = S_ShiftSuperF1

\* C3: every space-separated token of modifiers is one of Shift, Control,
\* Alt, Super.
C3_ModifiersCanonical == Returned => Tokens(result.modifiers) \subseteq CanonicalNames

\* an unknown tag and a case variant next to a recognized tag
C3_Witness ==
    /\ Returned
    /\ Occurs(T_shift, binding)
    /\ Occurs(T_Foo, binding)
    /\ result.modifiers # <<>>

\* C4: a binding that contains <Primary> gives the token Control, and never a
\* token Primary.
C4_PrimaryIsControl ==
    (Returned /\ Occurs(T_Primary, binding)) =>
        /\ S_Control \in Tokens(result.modifiers)
        /\ S_Primary \notin Tokens(result.modifiers)

\* C5: a binding without any bracketed tag comes back unchanged as the key,
\* with empty modifiers.
C5_NoTagUnchanged ==
    (Returned /\ ~HasTag(binding)) =>
        result.modifiers = <<>> /\ result.key = binding

\* a binding with brackets that form no tag
C5_Witness ==
    /\ Returned
    /\ ~HasTag(binding)
    /\ Occurs(<<"<", ">">>, binding)
    /\ Len(binding) > 2

C5_WitnessF5 == Returned /\ binding = S_F5 /\ result.key = S_F5

\* C6: a binding made of one unrecognized tag followed by a key Y that holds
\* no tag gives empty modifiers and the key Y.
C6_UnknownTagStripped ==
    Returned =>
        \A n \in 3..Len(binding) :
            LET tag == SubSeq(binding, 1, n)
                Y == SubSeq(binding, n + 1, Len(binding))
            IN  (IsTag(tag) /\ tag \notin RecognizedTags /\ ~HasTag(Y)) =>
                    result.modifiers = <<>> /\ result.key = Y

C6_Witness ==
    /\ Returned
    /\ \E n \in 3..(Len(binding) - 1) :
          /\ SubSeq(binding, 1, n) = T_Foo
          /\ ~HasTag(SubSeq(binding, n + 1, Len(binding)))
          /\ result.key = SubSeq(binding, n + 1, Len(binding))

-----------------------------------------------------------------------------
(* What the claims about the collector and the search speak of.            *)

\* the records collected so far, those of the open schema included
Output == specs \o schema_specs

\* positions of the records of Output that carry a schema and a key name
RecordsOf(schema, action) ==
    {i \in DOMAIN Output : Output[i].schema = schema /\ Output[i].action = action}

\* positions of the non-empty strings of a string list
NonEmptyAt(value) == {j \in DOMAIN value : value[j] # <<>>}

\* C7: per key read from an opened schema, the records carrying that schema
\* and key name are as many as the non-empty strings of its string-array
\* value, none for a value of another type; and every record comes from a
\* non-empty string of a string-array key.
C7_OneRecordPerNonEmptyString ==
    /\ \A k \in DOMAIN keys_read :
          LET e == keys_read[k]
          IN  Cardinality(RecordsOf(e.schema, e.action)) =
                 IF e.type = "as" THEN Cardinality(NonEmptyAt(e.value)) ELSE 0
    /\ \A i \in DOMAIN Output :
          \E k \in DOMAIN keys_read :
             /\ keys_read[k].schema = Output[i].schema
             /\ keys_read[k].action = Output[i].action
             /\ keys_read[k].type = "as"
             /\ \E j \in NonEmptyAt(keys_read[k].value) :
                   Output[i] = BuildSpec(Output[i].schema, Output[i].action,
                                         keys_read[k].value[j])

\* a string array with an empty and a non-empty string and a key of another
\* type have been read
C7_Witness ==
    /\ pc = "collected"
    /\ \E k \in DOMAIN keys_read :
          /\ keys_read[k].type = "as"
          /\ Len(keys_read[k].value) = 2
          /\ Cardinality(NonEmptyAt(keys_read[k].value)) = 1
    /\ \E k \in DOMAIN keys_read : keys_read[k].type = "s"
    /\ Len(specs) = 1

\* the path the store gave for a schema is a non-empty string
HasConcretePath(schema) ==
    \E l \in DOMAIN lookups :
       /\ lookups[l].schema = schema
       /\ ~lookups[l].path.none
       /\ lookups[l].path.str # <<>>

\* C8: every record comes from a schema whose identifier contains
\* "keybindings" and whose path is a non-empty string; only such schemas are
\* opened; a schema without a path is not opened and gives no record; a
\* schema whose identifier lacks "keybindings" is neither looked up nor opened.
C8_OnlyQualifyingSchemas ==
    /\ \A i \in DOMAIN Output :
          Occurs(S_keybindings, Output[i].schema) /\ HasConcretePath(Output[i].schema)
    /\ \A o \in DOMAIN opened :
          Occurs(S_keybindings, opened[o]) /\ HasConcretePath(opened[o])
    /\ \A l \in DOMAIN lookups :
          /\ Occurs(S_keybindings, lookups[l].schema)
          /\ (lookups[l].path.none \/ lookups[l].path.str = <<>>) =>
                /\ \A o \in DOMAIN opened : opened[o] # lookups[l].schema
                /\ \A i \in DOMAIN Output : Output[i].schema # lookups[l].schema

\* a relocatable schema without a path was listed and looked up, a schema
\* lacking "keybindings" was listed, and another schema gave a record
C8_Witness ==
    /\ pc = "collected"
    /\ \E l \in DOMAIN lookups :
          /\ lookups[l].path.none
          /\ \E r \in DOMAIN relocatable_schemas :
                relocatable_schemas[r] = lookups[l].schema
    /\ \E n \in DOMAIN non_relocatable_schemas :
          ~Occurs(S_keybindings, non_relocatable_schemas[n])
    /\ specs # <<>>

\* position of a schema in the order of the claim: the fixed-path schemas as
\* the store lists them, then the relocatable ones as the store lists them
ListedAt(schema) ==
    IF \E n \in DOMAIN non_relocatable_schemas : non_relocatable_schemas[n] = schema
    THEN CHOOSE n \in DOMAIN non_relocatable_schemas : non_relocatable_schemas[n] = schema
    ELSE Len(non_relocatable_schemas)
         + (CHOOSE r \in DOMAIN relocatable_schemas : relocatable_schemas[r] = schema)

\* position of a key in the order settings.keys() yielded the keys
YieldedAt(schema, action) ==
    CHOOSE k \in DOMAIN keys_read :
        keys_read[k].schema = schema /\ keys_read[k].action = action

\* C10: the records are in enumeration order: by schema as listed, the
\* fixed-path schemas first, then by key as yielded, then by position of the
\* string in the list of the key.
C10_EnumerationOrder ==
    /\ \A i, j \in DOMAIN Output :
          i < j =>
             \/ ListedAt(Output[i].schema) < ListedAt(Output[j].schema)
             \/ /\ Output[i].schema = Output[j].schema
                /\ YieldedAt(Output[i].schema, Output[i].action)
                      <= YieldedAt(Output[j].schema, Output[j].action)
    /\ \A i, j \in DOMAIN Output :
          (/\ \E r \in DOMAIN relocatable_schemas :
                 relocatable_schemas[r] = Output[i].schema
           /\ \E n \in DOMAIN non_relocatable_schemas :
                 non_relocatable_schemas[n] = Output[j].schema) => j < i
    /\ \A k \in DOMAIN keys_read :
          LET e == keys_read[k]
              R == RecordsOf(e.schema, e.action)
          IN  e.type = "as" =>
                 \A n \in 1..Cardinality(R) :
                    n <= Cardinality(NonEmptyAt(e.value)) =>
                       Output[Nth(R, n)] =
                          BuildSpec(e.schema, e.action, e.value[Nth(NonEmptyAt(e.value), n)])

\* a relocatable schema whose identifier sorts before the one of a
\* fixed-path schema, both with a record
C10_Witness ==
    /\ pc = "collected"
    /\ Len(specs) = 2
    /\ non_relocatable_schemas = <<S_wmKeybindings>>
    /\ relocatable_schemas = <<S_keybindingsMedia>>
    /\ specs[1].schema = S_wmKeybindings
    /\ specs[1].key = S_X
    /\ specs[2].schema = S_keybindingsMedia
    /\ specs[2].key = S_F5

\* two characters that are the same up to case
SameLetter(a, b) ==
    \/ a = b
    \/ \E n \in 1..26 : {a, b} = {S_UpperCase[n], S_LowerCase[n]}

\* sub is a substring of s, compared case-insensitively
OccursIgnoringCase(sub, s) ==
    \E i \in 1..(Len(s) - Len(sub) + 1) :
       \A k \in 1..Len(sub) : SameLetter(sub[k], s[i + k - 1])

\* C9: _Search returns False exactly when the key is, up to case, a substring
\* of the text of one of the four columns of the row, True when
\* all four fail; the term alt matches a row whose modifiers is Alt; and a
\* call leaves the list model as it is.
C9_SearchMatchesAnyColumn ==
    /\ [](~search.none =>
            LET row == list_model[search.rowiter]
            IN  /\ search.returned = FALSE <=>
                      \E c \in 1..4 : OccursIgnoringCase(search.key, row[c])
                /\ search.returned = TRUE <=>
                      \A c \in 1..4 : ~OccursIgnoringCase(search.key, row[c])
                /\ (search.key = S_alt /\ row[3] = S_Alt) => search.returned = FALSE)
    /\ [][list_model' = list_model]_vars

C9_Witness ==
    /\ ~search.none
    /\ search.key = S_alt
    /\ list_model[search.rowiter][3] = S_Alt
    /\ search.returned = FALSE
    /\ Len(list_model) = 2

C9_WitnessNoMatch == ~search.none /\ search.returned = TRUE

====
